---- MODULE Spec2Model ----
(***************************************************************************)
(* A model of the travel planner's AppComponent                            *)
(* (src/src/services/gemini.service.ts): the signals of the component,     *)
(* the currency parser, the budget aggregator and the asynchronous         *)
(* generateItinerary workflow with its single await.                       *)
(*                                                                         *)
(* Conventions.                                                            *)
(*  - A nullable value is a tuple of length 0 (null) or 1 (<<x>>).         *)
(*  - A JavaScript number is an exact rational <<num, den>>, den > 0, in   *)
(*    lowest terms (floating-point rounding is not modelled).              *)
(*  - A string that the code inspects (a cost, the budget text) is a       *)
(*    sequence of one-character strings; other strings are opaque.         *)
(***************************************************************************)
EXTENDS Integers, Sequences, FiniteSets, TLC

(***************************************************************************)
(* Bounds of the model.                                                    *)
(***************************************************************************)
MaxDuration == 2
MaxActualCost == 1
MaxPending == 2

(***************************************************************************)
(* Nullable values and numbers.                                            *)
(***************************************************************************)
Null == <<>>
Some(x) == <<x>>
IsNull(v) == Len(v) = 0
Val(v) == v[1]

Abs(n) == IF n < 0 THEN 0 - n ELSE n

RECURSIVE GCD(_, _)
GCD(a, b) == IF b = 0 THEN a ELSE GCD(b, a % b)

\* The number n/d (d > 0) in lowest terms.
Num(n, d) ==
  LET g == GCD(Abs(n), d)
  IN  <<n \div g, d \div g>>

Zero == Num(0, 1)
Add(x, y) == Num(x[1] * y[2] + y[1] * x[2], x[2] * y[2])
Sub(x, y) == Num(x[1] * y[2] - y[1] * x[2], x[2] * y[2])
\* x / k for an integer k > 0
DivInt(x, k) == Num(x[1], x[2] * k)

RECURSIVE Pow10(_)
Pow10(k) == IF k = 0 THEN 1 ELSE 10 * Pow10(k - 1)

(***************************************************************************)
(* Characters.                                                             *)
(***************************************************************************)
Digits == {"0", "1", "2", "3", "4", "5", "6", "7", "8", "9"}
DigitVal(c) ==
  CASE c = "0" -> 0 [] c = "1" -> 1 [] c = "2" -> 2 [] c = "3" -> 3
    [] c = "4" -> 4 [] c = "5" -> 5 [] c = "6" -> 6 [] c = "7" -> 7
    [] c = "8" -> 8 [] c = "9" -> 9

UpperLetters == {"D", "I", "R", "S", "U", "P", "Y", "J", "F", "E"}
LowerLetters == {"d", "i", "r", "s", "u", "p", "y", "j", "f", "e"}
IsLetter(c) == c \in UpperLetters \cup LowerLetters
ToUpperChar(c) ==
  CASE c = "d" -> "D" [] c = "i" -> "I" [] c = "r" -> "R" [] c = "s" -> "S"
    [] c = "u" -> "U" [] c = "p" -> "P" [] c = "y" -> "Y" [] c = "j" -> "J"
    [] c = "f" -> "F" [] c = "e" -> "E"
    [] OTHER -> c

ToUpperCase(s) == [i \in 1..Len(s) |-> ToUpperChar(s[i])]

(***************************************************************************)
(* parseCurrency (lines 103-117).                                          *)
(***************************************************************************)
DefaultCurrency == <<"I", "D", "R">>

\* String.prototype.match(/[A-Z]{2,3}/i): the leftmost run of two letters,
\* extended greedily to three; <<>> when there is no match.
RECURSIVE CurrencyCodeMatch(_)
CurrencyCodeMatch(s) ==
  IF Len(s) < 2 THEN <<>>
  ELSE IF IsLetter(s[1]) /\ IsLetter(s[2])
       THEN IF Len(s) >= 3 /\ IsLetter(s[3]) THEN SubSeq(s, 1, 3)
            ELSE SubSeq(s, 1, 2)
       ELSE CurrencyCodeMatch(Tail(s))

\* replace(/[^\d,\.]/g, '')
IsNumericChar(c) == c \in Digits \cup {",", "."}
CleanedString(s) == SelectSeq(s, IsNumericChar)

\* replace(/\./g, '').replace(/,/g, '.')
IsNotDot(c) == c # "."
NormalizedString(s) ==
  LET noDots == SelectSeq(s, IsNotDot)
  IN  [i \in 1..Len(noDots) |-> IF noDots[i] = "," THEN "." ELSE noDots[i]]

\* The longest prefix of s made of digits
RECURSIVE DigitPrefix(_)
DigitPrefix(s) ==
  IF s # <<>> /\ Head(s) \in Digits THEN <<Head(s)>> \o DigitPrefix(Tail(s))
  ELSE <<>>

RECURSIVE DigitsValue(_)
DigitsValue(ds) ==
  IF ds = <<>> THEN 0
  ELSE 10 * DigitsValue(SubSeq(ds, 1, Len(ds) - 1)) + DigitVal(ds[Len(ds)])

\* parseFloat on a string of digits and dots: the longest prefix of the form
\* digits [ "." digits ] with at least one digit; Null stands for NaN.
ParseFloat(s) ==
  LET ip   == DigitPrefix(s)
      rest == SubSeq(s, Len(ip) + 1, Len(s))
      fp   == IF rest # <<>> /\ Head(rest) = "." THEN DigitPrefix(Tail(rest)) ELSE <<>>
  IN  IF ip = <<>> /\ fp = <<>> THEN Null
      ELSE Some(Num(DigitsValue(ip) * Pow10(Len(fp)) + DigitsValue(fp), Pow10(Len(fp))))

parseCurrency(currencyString) ==
  IF currencyString = <<>> THEN [amount |-> Zero, currencyCode |-> DefaultCurrency]
  ELSE
    LET currencyCodeMatch == CurrencyCodeMatch(currencyString)
        currencyCode == IF currencyCodeMatch # <<>> THEN ToUpperCase(currencyCodeMatch)
                        ELSE DefaultCurrency
        normalizedString == NormalizedString(CleanedString(currencyString))
        parsed == ParseFloat(normalizedString)
        \* parseFloat(..) || 0 : NaN and 0 both give 0
        amount == IF IsNull(parsed) THEN Zero ELSE Val(parsed)
    IN  [amount |-> amount, currencyCode |-> currencyCode]

(***************************************************************************)
(* Inputs.                                                                 *)
(***************************************************************************)
\* Values of the destination field: empty, or a place.
Destinations == {"", "Kyoto"}

\* Values of the duration field (a number input): null or an integer,
\* negative and zero included.
Durations == {Null} \cup {Some(d) : d \in (0 - 1)..MaxDuration}

\* Texts typed into the total-budget field.
BudgetTexts ==
  { <<>>,
    <<"1", ",", "5">>,
    <<"R", "p", " ", "3">>,
    <<"f", "r", "e", "e">> }

\* Values typed into an activity's actual-cost field.
ActualCosts == {Null} \cup {Some(Num(k, 1)) : k \in 1..MaxActualCost}

\* The cost property of an activity object of the response: a string, a
\* number, or absent (undefined).
CostString(text) == [kind |-> "string", text |-> text, num |-> 0]
CostNumber(n) == [kind |-> "number", text |-> <<>>, num |-> n]
CostMissing == [kind |-> "missing", text |-> <<>>, num |-> 0]

JsonActivity(name, cost, actualCost) ==
  [name |-> name, time |-> "09:00 - 17:00", cost |-> cost,
   checkPriceLink |-> "https://example.com", actualCost |-> actualCost]

\* activities is nullable: Null is a day object without an activities array.
JsonDay(day, activities) == [day |-> day, theme |-> "temples", activities |-> activities]

DaysValid ==
  << JsonDay(1, Some(<< JsonActivity("Kinkakuji", CostString(<<"5", "0", " ", "J", "P", "Y">>), Null),
                        JsonActivity("Gion", CostString(<<"1", ",", "5", " ", "u", "s", "d">>), Some(Num(7, 1))) >>)),
     JsonDay(2, Some(<< JsonActivity("Walk", CostString(<<"R", "p", " ", "2", ".", "0", "0", "0">>), Null) >>)) >>

DaysLoose ==
  << JsonDay(2, Some(<< JsonActivity("Tea", CostMissing, Some(Num(3, 1))) >>)),
     JsonDay(1, Some(<<>>)) >>

DaysNumericCost ==
  << JsonDay(1, Some(<< JsonActivity("Nijo", CostString(<<"f", "r", "e", "e">>), Null),
                        JsonActivity("Nara", CostNumber(5), Null) >>)) >>

DaysNoActivities == << JsonDay(1, Null) >>

\* How a generateContent call can end: the promise rejects; the response has
\* no text; the text is not JSON; the text is JSON but no array; the text is
\* a JSON array of objects.
Outcome(kind, days) == [kind |-> kind, days |-> days]
Outcomes ==
  { Outcome("reject", <<>>),
    Outcome("notext", <<>>),
    Outcome("invalid", <<>>),
    Outcome("nonarray", <<>>),
    Outcome("array", <<>>),
    Outcome("array", DaysValid),
    Outcome("array", DaysLoose),
    Outcome("array", DaysNumericCost),
    Outcome("array", DaysNoActivities) }

ValidationError == Some("Harap isi Tujuan Wisata dan Durasi (Hari).")
MalformedError == Some("Gagal memproses itinerary")
GenericError == Some("Gagal membuat itinerary")

(***************************************************************************)
(* State: the signals of AppComponent (lines 63-76), the outstanding       *)
(* generateContent calls, and a record of the last operation.              *)
(***************************************************************************)
VARIABLES
  destination,                  \* string
  duration,                     \* nullable integer
  totalBudgetInput,             \* text
  totalBudget,                  \* nullable number
  itinerary,                    \* nullable sequence of DailyPlan
  isLoading,                    \* boolean
  error,                        \* nullable string
  totalEstimatedCost,           \* number
  totalActualCost,              \* number
  averageDailyBudgetRemaining,  \* nullable number
  pending,                      \* generateContent calls not yet completed
  reentered,                    \* generateItinerary was invoked while isLoading
  lastOp,                       \* what ran last: "init", "edit" (a form field),
                                \* "invalid", "start", "success", "failed"
  lastCalc                      \* "none", "done", "threw": calculateSummary in lastOp

signals == <<destination, duration, totalBudgetInput, totalBudget, itinerary,
             isLoading, error>>
summary == <<totalEstimatedCost, totalActualCost, averageDailyBudgetRemaining>>
vars == <<signals, summary, pending, reentered, lastOp, lastCalc>>

Init ==
  /\ destination = ""
  /\ duration = Null
  /\ totalBudgetInput = <<>>
  /\ totalBudget = Null
  /\ itinerary = Null
  /\ isLoading = FALSE
  /\ error = Null
  /\ totalEstimatedCost = Zero
  /\ totalActualCost = Zero
  /\ averageDailyBudgetRemaining = Null
  /\ pending = 0
  /\ reentered = FALSE
  /\ lastOp = "init"
  /\ lastCalc = "none"

(***************************************************************************)
(* calculateSummary (lines 140-174).                                       *)
(***************************************************************************)
\* parseCurrency(activity.cost) for whatever the cost property holds: a falsy
\* value (absent, 0, '') returns the default; any other non-string has no
\* match method and throws a TypeError.
CostIsFalsy(cost) ==
  \/ cost.kind = "missing"
  \/ cost.kind = "number" /\ cost.num = 0
  \/ cost.kind = "string" /\ cost.text = <<>>
CostThrows(cost) == cost.kind = "number" /\ cost.num # 0
CostAmount(cost) ==
  IF CostIsFalsy(cost) THEN parseCurrency(<<>>).amount
  ELSE parseCurrency(cost.text).amount

\* The body of the inner loop (lines 150-156) on the accumulator
\* [totalEst, totalAct, threw].
ActivityStep(acc, activity) ==
  IF acc.threw THEN acc
  ELSE IF CostThrows(activity.cost) THEN [acc EXCEPT !.threw = TRUE]
  ELSE [acc EXCEPT
          !.totalEst = Add(acc.totalEst, CostAmount(activity.cost)),
          !.totalAct = IF ~IsNull(activity.actualCost)
                       THEN Add(acc.totalAct, Val(activity.actualCost))
                       ELSE acc.totalAct]

RECURSIVE ActivitiesLoop(_, _)
ActivitiesLoop(acc, activities) ==
  IF activities = <<>> THEN acc
  ELSE ActivitiesLoop(ActivityStep(acc, Head(activities)), Tail(activities))

\* DaysLoop with a loop that leaves after the first day.
DaysLoop_FirstDayOnly(acc, days) ==
  IF days = <<>> THEN acc
  ELSE ActivitiesLoop(acc, Head(days).activities)

RECURSIVE DaysLoop(_, _)
DaysLoop(acc, days) ==
  IF days = <<>> THEN acc
  ELSE DaysLoop(ActivitiesLoop(acc, Head(days).activities), Tail(days))

\* AverageDailyRemaining dividing the whole budget, the spending ignored.
AverageDailyRemaining_IgnoresActual(budget, durationDays, totalAct) ==
  IF ~IsNull(budget) /\ ~IsNull(durationDays) /\ Val(durationDays) > 0
  THEN Some(DivInt(Val(budget), Val(durationDays)))
  ELSE Null

\* lines 167-173
AverageDailyRemaining(budget, durationDays, totalAct) ==
  IF ~IsNull(budget) /\ ~IsNull(durationDays) /\ Val(durationDays) > 0
  THEN Some(DivInt(Sub(Val(budget), totalAct), Val(durationDays)))
  ELSE Null

\* The values calculateSummary stores, or threw = TRUE when it throws before
\* storing anything.
calculateSummary(currentItinerary, budget, durationDays) ==
  LET acc == IF ~IsNull(currentItinerary)
             THEN DaysLoop([totalEst |-> Zero, totalAct |-> Zero, threw |-> FALSE],
                           Val(currentItinerary))
             ELSE [totalEst |-> Zero, totalAct |-> Zero, threw |-> FALSE]
  IN  [threw |-> acc.threw,
       totalEst |-> acc.totalEst,
       totalAct |-> acc.totalAct,
       avg |-> AverageDailyRemaining(budget, durationDays, acc.totalAct)]

\* RunCalculateSummary without the store of line 162.
RunCalculateSummary_StaleActual(currentItinerary, budget, durationDays) ==
  LET r == calculateSummary(currentItinerary, budget, durationDays)
  IN  IF r.threw
      THEN /\ UNCHANGED summary
           /\ lastCalc' = "threw"
      ELSE /\ totalEstimatedCost' = r.totalEst
           /\ UNCHANGED totalActualCost
           /\ averageDailyBudgetRemaining' = r.avg
           /\ lastCalc' = "done"

\* The effect of a call of calculateSummary on the summary signals, given
\* the values the other signals have when it runs.
RunCalculateSummary(currentItinerary, budget, durationDays) ==
  LET r == calculateSummary(currentItinerary, budget, durationDays)
  IN  IF r.threw
      THEN /\ UNCHANGED summary
           /\ lastCalc' = "threw"
      ELSE /\ totalEstimatedCost' = r.totalEst
           /\ totalActualCost' = r.totalAct
           /\ averageDailyBudgetRemaining' = r.avg
           /\ lastCalc' = "done"

(***************************************************************************)
(* Form fields.  The template binds the fields to the signals; a field     *)
(* edit writes the signal and runs the handler bound to it.                *)
(***************************************************************************)
SetDestination(d) ==
  /\ destination' = d
  /\ lastOp' = "edit"
  /\ lastCalc' = "none"
  /\ UNCHANGED <<duration, totalBudgetInput, totalBudget, itinerary, isLoading,
                 error, summary, pending, reentered>>

\* A write of the duration signal and nothing else.
SetDuration(d) ==
  /\ duration' = d
  /\ lastOp' = "edit"
  /\ lastCalc' = "none"
  /\ UNCHANGED <<destination, totalBudgetInput, totalBudget, itinerary, isLoading,
                 error, summary, pending, reentered>>

\* A write of the duration signal by an interface that re-runs the
\* aggregation on every edit of a field the summary depends on.
DurationChange(d) ==
  /\ duration' = d
  /\ RunCalculateSummary(itinerary, totalBudget, d)
  /\ lastOp' = "edit"
  /\ UNCHANGED <<destination, totalBudgetInput, totalBudget, itinerary, isLoading,
                 error, pending, reentered>>

\* BudgetFromInput giving null for a text without an amount.
BudgetFromInput_NullWhenEmpty(text) ==
  IF IsNull(ParseFloat(NormalizedString(CleanedString(text)))) THEN Null
  ELSE Some(parseCurrency(text).amount)

\* lines 135-136: the amount parsed from the budget text, never null
BudgetFromInput(text) == Some(parseCurrency(text).amount)

\* onTotalBudgetInputChange (lines 134-138), run on the text just typed.
onTotalBudgetInputChange(text) ==
  /\ totalBudgetInput' = text
  /\ totalBudget' = BudgetFromInput(text)
  /\ RunCalculateSummary(itinerary, totalBudget', duration)
  /\ lastOp' = "edit"
  /\ UNCHANGED <<destination, duration, itinerary, isLoading, error, pending,
                 reentered>>

\* An edit of the actual-cost field of activity j of day i: the activity is
\* updated in place and the aggregation re-run.
ActualCostChange(i, j, v) ==
  /\ ~IsNull(itinerary)
  /\ i \in 1..Len(Val(itinerary))
  /\ j \in 1..Len(Val(itinerary)[i].activities)
  /\ itinerary' = Some([Val(itinerary) EXCEPT ![i].activities[j].actualCost = v])
  /\ RunCalculateSummary(itinerary', totalBudget, duration)
  /\ lastOp' = "edit"
  /\ UNCHANGED <<destination, duration, totalBudgetInput, totalBudget, isLoading,
                 error, pending, reentered>>

(***************************************************************************)
(* generateItinerary (lines 176-221): the part before the await.           *)
(***************************************************************************)
\* InputsInvalid without the test of the duration.
InputsInvalid_DestinationOnly == destination = ""

\* line 177: !this.destination() || !this.duration()
InputsInvalid == destination = "" \/ IsNull(duration) \/ Val(duration) = 0

\* lines 178-179
RejectInputs ==
  /\ error' = ValidationError
  /\ lastOp' = "invalid"
  /\ lastCalc' = "none"
  /\ UNCHANGED <<destination, duration, totalBudgetInput, totalBudget, itinerary,
                 isLoading, summary, pending>>

\* StartGeneration without line 182.
StartGeneration_NoLoadingFlag ==
  /\ pending < MaxPending
  /\ UNCHANGED isLoading
  /\ error' = Null
  /\ itinerary' = Null
  /\ totalEstimatedCost' = Zero
  /\ totalActualCost' = Zero
  /\ averageDailyBudgetRemaining' = Null
  /\ pending' = pending + 1
  /\ lastOp' = "start"
  /\ lastCalc' = "none"
  /\ UNCHANGED <<destination, duration, totalBudgetInput, totalBudget>>

\* StartGeneration without lines 185-187.
StartGeneration_KeepsSummary ==
  /\ pending < MaxPending
  /\ isLoading' = TRUE
  /\ error' = Null
  /\ itinerary' = Null
  /\ UNCHANGED summary
  /\ pending' = pending + 1
  /\ lastOp' = "start"
  /\ lastCalc' = "none"
  /\ UNCHANGED <<destination, duration, totalBudgetInput, totalBudget>>

\* lines 182-195, up to the await: the flags and the summary are reset and
\* generateContent is called.
StartGeneration ==
  /\ pending < MaxPending
  /\ isLoading' = TRUE
  /\ error' = Null
  /\ itinerary' = Null
  /\ totalEstimatedCost' = Zero
  /\ totalActualCost' = Zero
  /\ averageDailyBudgetRemaining' = Null
  /\ pending' = pending + 1
  /\ lastOp' = "start"
  /\ lastCalc' = "none"
  /\ UNCHANGED <<destination, duration, totalBudgetInput, totalBudget>>

generateItinerary ==
  /\ reentered' = (reentered \/ isLoading)
  /\ IF InputsInvalid THEN RejectInputs ELSE StartGeneration

\* The generate button of an interface that disables it while loading.
GenerateWhenIdle ==
  /\ ~isLoading
  /\ generateItinerary

(***************************************************************************)
(* generateItinerary: the part after the await (lines 197-220).            *)
(***************************************************************************)
\* InitializedItinerary without the override of line 205.
InitializedItinerary_KeepsActualCost(parsedItinerary) ==
  [i \in 1..Len(parsedItinerary) |->
     [day |-> parsedItinerary[i].day,
      theme |-> parsedItinerary[i].theme,
      activities |-> Val(parsedItinerary[i].activities)]]

\* lines 201-207
InitializedItinerary(parsedItinerary) ==
  [i \in 1..Len(parsedItinerary) |->
     [day |-> parsedItinerary[i].day,
      theme |-> parsedItinerary[i].theme,
      activities |->
        [j \in 1..Len(Val(parsedItinerary[i].activities)) |->
           [Val(parsedItinerary[i].activities)[j] EXCEPT !.actualCost = Null]]]]

\* An exception before line 208: the call rejected, response.text is not a
\* string, JSON.parse threw, or a map ran on something that has no map.
ThrowsBeforeSet(r) ==
  \/ r.kind # "array"
  \/ \E i \in 1..Len(r.days) : IsNull(r.days[i].activities)

\* lines 213-217
ErrorFor(r) == IF r.kind = "invalid" THEN MalformedError ELSE GenericError

\* The try and catch blocks, lines 191-217.
HandleResponse(r) ==
  /\ pending > 0
  /\ pending' = pending - 1
  /\ IF ThrowsBeforeSet(r)
     THEN /\ error' = ErrorFor(r)
          /\ lastOp' = "failed"
          /\ lastCalc' = "none"
          /\ UNCHANGED <<itinerary, summary>>
     ELSE /\ itinerary' = Some(InitializedItinerary(r.days))
          /\ RunCalculateSummary(itinerary', totalBudget, duration)
          /\ IF lastCalc' = "threw"
             THEN /\ error' = GenericError
                  /\ lastOp' = "failed"
             ELSE /\ UNCHANGED error
                  /\ lastOp' = "success"
  /\ UNCHANGED <<destination, duration, totalBudgetInput, totalBudget, reentered>>

\* CallCompletes with line 219 at the end of the try block instead of in a
\* finally block.
CallCompletes_NoFinally(r) ==
  /\ HandleResponse(r)
  /\ isLoading' = (IF lastOp' = "failed" THEN isLoading ELSE FALSE)

\* A generateContent call completes and the attempt runs to its end; the
\* finally block (lines 218-220) clears the loading flag.
CallCompletes(r) ==
  /\ HandleResponse(r)
  /\ isLoading' = FALSE

(***************************************************************************)
(* Specifications.                                                         *)
(***************************************************************************)
EditDestination == \E d \in Destinations : SetDestination(d)
EditDuration == \E d \in Durations : SetDuration(d)
EditDurationRecalc == \E d \in Durations : DurationChange(d)
EditBudget == \E text \in BudgetTexts : onTotalBudgetInputChange(text)
EditActualCost ==
  /\ ~IsNull(itinerary)
  /\ \E i \in 1..Len(Val(itinerary)) :
       \E j \in 1..Len(Val(itinerary)[i].activities), v \in ActualCosts :
         ActualCostChange(i, j, v)
Completion == \E r \in Outcomes : CallCompletes(r)

\* The component behind an interface that disables the generate button
\* while loading: a field edit writes its signal, the budget and actual-cost
\* fields run their handlers.
Next ==
  \/ EditDestination
  \/ EditDuration
  \/ EditBudget
  \/ EditActualCost
  \/ GenerateWhenIdle
  \/ Completion

Spec == Init /\ [][Next]_vars

\* The same, with completions that are not postponed forever: the claims
\* about an attempt whose call completes are stated under this.
LiveSpec == Spec /\ WF_vars(Completion)

\* The same interface, re-running the aggregation on a duration edit too.
NextRecalc ==
  \/ EditDestination
  \/ EditDurationRecalc
  \/ EditBudget
  \/ EditActualCost
  \/ GenerateWhenIdle
  \/ Completion

SpecRecalc == Init /\ [][NextRecalc]_vars

\* generateItinerary as a method, invoked at any time, the loading flag
\* set or not.
NextReentrant ==
  \/ EditDestination
  \/ EditDuration
  \/ EditBudget
  \/ generateItinerary
  \/ Completion

SpecReentrant == Init /\ [][NextReentrant]_vars

(***************************************************************************)
(* The summary a fresh aggregation of the current state would give,        *)
(* computed without the loops of calculateSummary.                         *)
(***************************************************************************)
\* The activities of all days, in order.
RECURSIVE AllActivities(_)
AllActivities(days) ==
  IF days = <<>> THEN <<>>
  ELSE Head(days).activities \o AllActivities(Tail(days))

CurrentActivities == IF IsNull(itinerary) THEN <<>> ELSE AllActivities(Val(itinerary))

RECURSIVE SumOver(_, _)
SumOver(S, f) ==
  IF S = {} THEN Zero
  ELSE LET k == CHOOSE k \in S : TRUE
       IN  Add(f[k], SumOver(S \ {k}, f))

\* The sum of the parsed cost strings.
SumOfEstimates ==
  LET acts == CurrentActivities
  IN  SumOver(DOMAIN acts, [k \in DOMAIN acts |-> CostAmount(acts[k].cost)])

\* The sum of the actual costs that are not null.
SumOfActuals ==
  LET acts == CurrentActivities
      entered == {k \in DOMAIN acts : ~IsNull(acts[k].actualCost)}
  IN  SumOver(entered, [k \in entered |-> Val(acts[k].actualCost)])

AverageKnown == ~IsNull(totalBudget) /\ ~IsNull(duration) /\ Val(duration) > 0

\* q = (totalBudget - SumOfActuals) / duration, stated as q * duration * den = num
IsAverageOf(q) ==
  LET rem == Sub(Val(totalBudget), SumOfActuals)
  IN  q[1] * rem[2] * Val(duration) = rem[1] * q[2]

SummaryIsFresh ==
  /\ totalEstimatedCost = SumOfEstimates
  /\ totalActualCost = SumOfActuals
  /\ IF AverageKnown
     THEN ~IsNull(averageDailyBudgetRemaining) /\ IsAverageOf(Val(averageDailyBudgetRemaining))
     ELSE IsNull(averageDailyBudgetRemaining)

\* No activity of the current itinerary makes the aggregation throw.
AggregationDefined == \A k \in DOMAIN CurrentActivities : ~CostThrows(CurrentActivities[k].cost)

(***************************************************************************)
(* Claims.                                                                 *)
(***************************************************************************)

\* C1: an invocation of generateItinerary with an empty destination or a
\* null duration sets the validation error, leaves the loading flag as it
\* was and issues no generateContent call.
C1_InvalidInputsRejected ==
  [][(generateItinerary /\ (destination = "" \/ IsNull(duration)))
       => /\ error' = ValidationError
          /\ isLoading' = isLoading
          /\ pending' = pending
          /\ UNCHANGED <<itinerary, summary>>]_vars

C1_Witness ==
  /\ lastOp = "invalid"
  /\ destination = "" \/ IsNull(duration)
  /\ error = ValidationError
  /\ ~isLoading
  /\ pending = 0

\* C2: after an attempt that failed, the error is set and the itinerary is
\* null.
C2_FailedAttemptLeavesNoItinerary ==
  lastOp = "failed" => (~IsNull(error) /\ IsNull(itinerary))

\* C3: a successful attempt stores one day plan per day object of the
\* response, in the response's order, each activity as the response gave it
\* but with actualCost null.
MatchesResponse(plans, days) ==
  /\ Len(plans) = Len(days)
  /\ \A i \in 1..Len(days) :
       /\ plans[i].day = days[i].day
       /\ plans[i].theme = days[i].theme
       /\ Len(plans[i].activities) = Len(Val(days[i].activities))
       /\ \A j \in 1..Len(plans[i].activities) :
            LET a == plans[i].activities[j]
                b == Val(days[i].activities)[j]
            IN  /\ a.name = b.name
                /\ a.time = b.time
                /\ a.cost = b.cost
                /\ a.checkPriceLink = b.checkPriceLink
                /\ IsNull(a.actualCost)

C3_SuccessInitializesItinerary ==
  [][\A r \in Outcomes :
       (CallCompletes(r) /\ lastOp' = "success")
         => (~IsNull(itinerary') /\ MatchesResponse(Val(itinerary'), r.days))]_vars

\* The response DaysValid, which supplies an actualCost, has been stored.
C3_Witness ==
  /\ lastOp = "success"
  /\ ~IsNull(Val(DaysValid[1].activities)[2].actualCost)
  /\ ~IsNull(itinerary)
  /\ Len(Val(itinerary)) = 2
  /\ Val(itinerary)[1].activities[2].name = "Gion"
  /\ IsNull(Val(itinerary)[1].activities[2].actualCost)

\* C4: no two generateContent calls are outstanding.
C4_AtMostOneInFlight == pending <= 1

\* C4 (amended): no two generateContent calls are outstanding as long as
\* generateItinerary has not been invoked while the loading flag was true.
C4_AtMostOneInFlightIfGated == ~reentered => pending <= 1

C4_Witness ==
  /\ ~reentered
  /\ lastOp = "start"
  /\ isLoading
  /\ pending = 1

\* C5: in every state the stored summary is what the aggregation gives for
\* the current itinerary, total budget and duration.
C5_SummaryAlwaysFresh == AggregationDefined => SummaryIsFresh

\* C5 (amended): when the last operation ran calculateSummary to its end,
\* the stored summary is what the aggregation gives for the current
\* itinerary, total budget and duration.
C5_SummaryFreshAfterAggregation == lastCalc = "done" => SummaryIsFresh

C5_Witness ==
  /\ lastCalc = "done"
  /\ ~IsNull(itinerary)
  /\ totalActualCost # Zero
  /\ ~IsNull(averageDailyBudgetRemaining)

\* C6: when the call has just been issued, the itinerary and the error are
\* null and the summary is 0, 0, null.
C6_StartClearsState ==
  lastOp = "start"
    => /\ IsNull(itinerary)
       /\ IsNull(error)
       /\ totalEstimatedCost = Zero
       /\ totalActualCost = Zero
       /\ IsNull(averageDailyBudgetRemaining)

\* A start in a state whose budget and duration would give an average.
C6_Witness ==
  /\ lastOp = "start"
  /\ isLoading
  /\ AverageKnown

\* C7: if completions are not postponed forever, a set loading flag is
\* eventually cleared.
C7_LoadingEventuallyCleared == isLoading ~> ~isLoading

\* A failed attempt back in Idle.
C7_Witness ==
  /\ lastOp = "failed"
  /\ ~isLoading
  /\ pending = 0

\* C8: after calculateSummary, the average is null when the budget or the
\* duration is null or the duration is not positive, and otherwise it is
\* (total budget - sum of the non-null actual costs) / duration.
C8_AverageAfterAggregation ==
  lastCalc = "done"
    => IF IsNull(totalBudget) \/ IsNull(duration) \/ Val(duration) <= 0
       THEN IsNull(averageDailyBudgetRemaining)
       ELSE /\ ~IsNull(averageDailyBudgetRemaining)
            /\ IsAverageOf(Val(averageDailyBudgetRemaining))

\* (3/2 - 1) / 2 = 1/4
C8_Witness ==
  /\ lastCalc = "done"
  /\ totalBudget = Some(Num(3, 2))
  /\ duration = Some(2)
  /\ SumOfActuals = Num(1, 1)
  /\ averageDailyBudgetRemaining = Some(Num(1, 4))

\* C9: after calculateSummary, the total estimate is the sum of the parsed
\* cost strings of all activities of all days, 0 for no itinerary.
C9_EstimateAfterAggregation == lastCalc = "done" => totalEstimatedCost = SumOfEstimates

\* 50 + 1,5 + 2.000 = 4103/2 over two days
C9_Witness ==
  /\ lastCalc = "done"
  /\ ~IsNull(itinerary)
  /\ Len(Val(itinerary)) = 2
  /\ totalEstimatedCost = Num(4103, 2)

\* C10: onTotalBudgetInputChange leaves a total budget that is not null, 0
\* for a text without an amount; the total budget never becomes null again;
\* and with a total budget, an aggregation gives a null average only for a
\* null or non-positive duration.
C10_BudgetNeverNullAgain ==
  [][/\ \A text \in BudgetTexts :
          onTotalBudgetInputChange(text)
            => /\ ~IsNull(totalBudget')
               /\ IsNull(ParseFloat(NormalizedString(CleanedString(text))))
                    => totalBudget' = Some(Zero)
     /\ ~IsNull(totalBudget) => ~IsNull(totalBudget')
     /\ (~IsNull(totalBudget') /\ lastCalc' = "done" /\ IsNull(averageDailyBudgetRemaining'))
          => (IsNull(duration') \/ Val(duration') <= 0)]_vars

\* The text "free" has given a budget of 0, and a later aggregation with a
\* positive duration an average.
C10_Witness ==
  /\ totalBudgetInput = <<"f", "r", "e", "e">>
  /\ totalBudget = Some(Zero)
  /\ lastCalc = "done"
  /\ ~IsNull(duration)
  /\ Val(duration) > 0
  /\ ~IsNull(averageDailyBudgetRemaining)
====
